---- MODULE Spec2Model ----
(***************************************************************************)
(* Model of the killer-game backend (src/app.py): three persisted JSON     *)
(* documents (roster, assignment table, progress document) and the HTTP    *)
(* handlers that read and rewrite the progress document.                   *)
(*                                                                         *)
(* Encoding of Python/JSON values:                                         *)
(*   - a string is a sequence of one-character strings, "" is << >>;       *)
(*   - None in a string position is the value None below, which is no      *)
(*     string over the alphabet;                                           *)
(*   - a dict is a function with a domain of field names or of strings;    *)
(*   - null in a dict position (a player's guess, an assignment record)    *)
(*     is the value Null below.                                            *)
(***************************************************************************)
EXTENDS Integers, Sequences, FiniteSets, TLC

VARIABLES players, assignments, state, before, last, marked, guessed,
          inflight, clock, lastSaver, markedAt

\* the requests in flight when requests overlap, and the record of their saves
conc == <<inflight, clock, lastSaver, markedAt>>

vars == <<players, assignments, state, before, last, marked, guessed, conc>>

\* ------------------------------------------------------------------------
\* Python values
\* ------------------------------------------------------------------------

None == <<"None">>

Null == [null |-> TRUE]

EmptyDict == [k \in {} |-> None]

\* truth value of a string-or-None
Truthy(v) == v # None /\ v # << >>

\* a or b
Or(a, b) == IF Truthy(a) THEN a ELSE b

\* d.get(k)
Get(d, k) == IF k \in DOMAIN d THEN d[k] ELSE None

\* d.get(k, default)
GetOr(d, k, default) == IF k \in DOMAIN d THEN d[k] ELSE default

\* ------------------------------------------------------------------------
\* Strings
\* ------------------------------------------------------------------------

IsSpace(c) == c \in {" ", "\t"}

RECURSIVE LStrip(_)
LStrip(s) == IF s # << >> /\ IsSpace(Head(s)) THEN LStrip(Tail(s)) ELSE s

RECURSIVE RStrip(_)
RStrip(s) ==
  IF s # << >> /\ IsSpace(s[Len(s)]) THEN RStrip(SubSeq(s, 1, Len(s) - 1)) ELSE s

\* str.strip()
Strip(s) == RStrip(LStrip(s))

\* unicodedata.normalize("NFD", c) of one character; the accented letters
\* are written by name
Decompose(c) ==
  CASE c = "e_acute" -> <<"e", "COMBINING ACUTE ACCENT">>
    [] c = "E_ACUTE" -> <<"E", "COMBINING ACUTE ACCENT">>
    [] OTHER -> <<c>>

\* unicodedata.category(c) == "Mn"
IsMn(c) == c = "COMBINING ACUTE ACCENT"

\* str.lower() of one character
LowerChar(c) ==
  CASE c = "A" -> "a"
    [] c = "B" -> "b"
    [] c = "E" -> "e"
    [] c = "V" -> "v"
    [] c = "E_ACUTE" -> "e_acute"
    [] OTHER -> c

RECURSIVE NFD(_)
NFD(s) == IF s = << >> THEN << >> ELSE Decompose(Head(s)) \o NFD(Tail(s))

RECURSIVE StripMarks(_)
StripMarks(s) ==
  IF s = << >> THEN << >>
  ELSE (IF IsMn(Head(s)) THEN << >> ELSE <<Head(s)>>) \o StripMarks(Tail(s))

Lower(s) == [i \in 1..Len(s) |-> LowerChar(s[i])]

\* the first word of a string that does not start with whitespace
RECURSIVE FirstWord(_)
FirstWord(s) ==
  IF s = << >> \/ IsSpace(Head(s)) THEN << >> ELSE <<Head(s)>> \o FirstWord(Tail(s))

\* str.split(): the whitespace-separated words
RECURSIVE Split(_)
Split(s) ==
  LET t == LStrip(s)
  IN IF t = << >> THEN << >>
     ELSE LET w == FirstWord(t)
          IN <<w>> \o Split(SubSeq(t, Len(w) + 1, Len(t)))

\* " ".join(words)
RECURSIVE Join(_)
Join(words) ==
  IF words = << >> THEN << >>
  ELSE IF Len(words) = 1 THEN words[1]
  ELSE words[1] \o <<" ">> \o Join(Tail(words))

normalize(text) ==
  IF ~Truthy(text) THEN << >>
  ELSE Join(Split(Strip(Lower(StripMarks(NFD(text))))))

\* ------------------------------------------------------------------------
\* Progress document helpers
\* ------------------------------------------------------------------------

default_player_state ==
  [mission_done |-> FALSE, guess |-> Null, points |-> 0,
   discovered_by_target |-> FALSE]

\* ensure_player_state without its membership test: the entry is always reset
ensure_player_state_always_default(st, player_id) ==
  [k \in DOMAIN st \cup {player_id} |->
     IF k = player_id THEN default_player_state ELSE st[k]]

\* ensure_player_state starting a new document for a player it does not know
ensure_player_state_alone(st, player_id) ==
  IF player_id \notin DOMAIN st
  THEN [k \in {player_id} |-> default_player_state]
  ELSE st

\* the document after ensure_player_state(state, player_id); the entry the
\* code gets back is this document's value at player_id
ensure_player_state(st, player_id) ==
  IF player_id \notin DOMAIN st
  THEN [k \in DOMAIN st \cup {player_id} |->
          IF k = player_id THEN default_player_state ELSE st[k]]
  ELSE st

\* d[k] = v on a dict that has k
SetItem(d, k, v) == [d EXCEPT ![k] = v]

RECURSIVE build_default_state(_)
build_default_state(roster) ==
  IF roster = << >> THEN EmptyDict
  ELSE LET rest == build_default_state(SubSeq(roster, 1, Len(roster) - 1))
           pid == Get(roster[Len(roster)], "id")
       IN IF Truthy(pid)
          THEN [k \in DOMAIN rest \cup {pid} |-> default_player_state]
          ELSE rest

\* ------------------------------------------------------------------------
\* Assignment table
\* ------------------------------------------------------------------------

\* the raw document is [type |-> "dict", items |-> <<[k |-> key, v |-> record], ..>>]
\* in file order, [type |-> "list", items |-> <<record, ..>>], or a JSON scalar
load_assignments(raw) ==
  IF raw.type = "dict" THEN [assignments |-> raw.items, fmt |-> "dict"]
  ELSE IF raw.type = "list" THEN [assignments |-> raw.items, fmt |-> "list"]
  ELSE [assignments |-> << >>, fmt |-> "unknown"]

\* index of the first item of a keyed table whose key normalizes to wanted, 0 if none
FirstKeyIndex(items, wanted) ==
  LET hits == {i \in 1..Len(items) : normalize(items[i].k) = wanted}
  IN IF hits = {} THEN 0 ELSE CHOOSE i \in hits : \A j \in hits : i <= j

find_killer_key(items, player_display) ==
  LET i == FirstKeyIndex(items, normalize(player_display))
  IN IF i = 0 THEN None ELSE items[i].k

\* assignments.get(killer_key, {}) or {}
AssignmentOf(items, killer_key) ==
  LET hits == {i \in 1..Len(items) : items[i].k = killer_key}
  IN IF hits = {} THEN EmptyDict
     ELSE LET v == items[CHOOSE i \in hits : TRUE].v
          IN IF v = Null THEN EmptyDict ELSE v

\* the one-character string holding an em dash
DASH == <<"EM DASH">>

\* ------------------------------------------------------------------------
\* Handlers: each yields the progress document it leaves on disk, the HTTP
\* status and the response body
\* ------------------------------------------------------------------------

Reply(st, status, body) == [state |-> st, status |-> status, body |-> body]

Failure(st, status, message) == Reply(st, status, [ok |-> FALSE, error |-> message])

\* an uncaught exception: Flask answers 500 without the structured body
Crash(st, exception) == Reply(st, 500, [crash |-> exception])

\* the success branch of get_mission without its save_json
MissionReply_not_saved(st, killer, a) ==
  LET st2 == ensure_player_state(st, killer)
  IN Reply(st, 200,
           [ok |-> TRUE,
            player |-> [id |-> killer, display |-> killer],
            mission |-> [text |-> GetOr(a, "mission", DASH)],
            target |-> [display |-> GetOr(a, "target", DASH)],
            mission_done |-> st2[killer].mission_done])

\* the success branch of get_mission keeping its entry under the normalized name
MissionReply_normalized_key(st, killer, a) ==
  LET st2 == ensure_player_state(st, normalize(killer))
  IN Reply(st2, 200,
           [ok |-> TRUE,
            player |-> [id |-> killer, display |-> killer],
            mission |-> [text |-> GetOr(a, "mission", DASH)],
            target |-> [display |-> GetOr(a, "target", DASH)],
            mission_done |-> st2[normalize(killer)].mission_done])

MissionReply(st, killer, a) ==
  LET st2 == ensure_player_state(st, killer)
  IN Reply(st2, 200,
           [ok |-> TRUE,
            player |-> [id |-> killer, display |-> killer],
            mission |-> [text |-> GetOr(a, "mission", DASH)],
            target |-> [display |-> GetOr(a, "target", DASH)],
            mission_done |-> st2[killer].mission_done])

\* index of the first record of a legacy list whose killer normalizes to wanted
FirstRecordIndex(items, wanted) ==
  LET hits == {i \in 1..Len(items) :
                 normalize(GetOr(items[i], "killer", << >>)) = wanted}
  IN IF hits = {} THEN 0 ELSE CHOOSE i \in hits : \A j \in hits : i <= j

get_mission(args, st, raw) ==
  LET player_display == Get(args, "player")
      la == load_assignments(raw)
  IN IF ~Truthy(player_display)
     THEN Failure(st, 400, "Missing player parameter")
     ELSE IF la.fmt = "dict"
     THEN LET killer_key == find_killer_key(la.assignments, player_display)
          IN IF ~Truthy(killer_key)
             THEN Failure(st, 404, "Player not found in assignments")
             ELSE MissionReply(st, killer_key, AssignmentOf(la.assignments, killer_key))
     ELSE IF la.fmt = "list"
     THEN LET i == FirstRecordIndex(la.assignments, normalize(player_display))
          IN IF i = 0
             THEN Failure(st, 404, "Player not found in assignments")
             ELSE IF "killer" \notin DOMAIN la.assignments[i]
             THEN Crash(st, "KeyError")
             ELSE MissionReply(st, la.assignments[i].killer, la.assignments[i])
     ELSE Failure(st, 500, "Invalid assignments format")

\* (data.get("player_id") or data.get("player_display") or "").strip()
PlayerId(data) ==
  Strip(Or(Or(Get(data, "player_id"), Get(data, "player_display")), << >>))

\* the accused id taken as typed, without .strip()
AccusedId_untrimmed(data) ==
  Or(Or(Get(data, "accused_killer_id"), Get(data, "accused_killer_display")), << >>)

\* (data.get("accused_killer_id") or data.get("accused_killer_display") or "").strip()
AccusedId(data) ==
  Strip(Or(Or(Get(data, "accused_killer_id"), Get(data, "accused_killer_display")), << >>))

\* (data.get("guessed_mission") or "").strip()
GuessedMission(data) == Strip(Or(Get(data, "guessed_mission"), << >>))

\* mission_done flipping the flag instead of setting it
mission_done_toggles(data, st) ==
  LET player_id == PlayerId(data)
  IN IF ~Truthy(player_id)
     THEN Failure(st, 400, "Missing player_id")
     ELSE LET st2 == ensure_player_state(st, player_id)
              entry == [st2[player_id] EXCEPT !.mission_done = ~st2[player_id].mission_done]
          IN Reply(SetItem(st2, player_id, entry), 200,
                   [ok |-> TRUE, mission_done |-> TRUE])

\* mission_done storing the flag under the normalized name
mission_done_normalized_key(data, st) ==
  LET player_id == normalize(PlayerId(data))
  IN IF ~Truthy(player_id)
     THEN Failure(st, 400, "Missing player_id")
     ELSE LET st2 == ensure_player_state(st, player_id)
              entry == [st2[player_id] EXCEPT !.mission_done = TRUE]
          IN Reply(SetItem(st2, player_id, entry), 200,
                   [ok |-> TRUE, mission_done |-> TRUE])

mission_done(data, st) ==
  LET player_id == PlayerId(data)
  IN IF ~Truthy(player_id)
     THEN Failure(st, 400, "Missing player_id")
     ELSE LET st2 == ensure_player_state(st, player_id)
              entry == [st2[player_id] EXCEPT !.mission_done = TRUE]
          IN Reply(SetItem(st2, player_id, entry), 200,
                   [ok |-> TRUE, mission_done |-> TRUE])

\* submit_guess writing a fresh entry that holds only the guess
submit_guess_fresh_entry(data, st) ==
  LET player_id == PlayerId(data)
      accused_id == AccusedId(data)
      guessed_mission == GuessedMission(data)
  IN IF ~Truthy(player_id) \/ ~Truthy(accused_id) \/ ~Truthy(guessed_mission)
     THEN Failure(st, 400, "Missing field")
     ELSE LET entry == [default_player_state EXCEPT
                          !.guess = [killer_id |-> accused_id,
                                     killer_display |-> accused_id,
                                     mission |-> guessed_mission]]
          IN Reply([k \in DOMAIN st \cup {player_id} |->
                      IF k = player_id THEN entry ELSE st[k]], 200, [ok |-> TRUE])

\* submit_guess keeping a guess that is already stored
submit_guess_keeps_first(data, st) ==
  LET player_id == PlayerId(data)
      accused_id == AccusedId(data)
      guessed_mission == GuessedMission(data)
  IN IF ~Truthy(player_id) \/ ~Truthy(accused_id) \/ ~Truthy(guessed_mission)
     THEN Failure(st, 400, "Missing field")
     ELSE LET st2 == ensure_player_state(st, player_id)
              entry == IF st2[player_id].guess # Null THEN st2[player_id]
                       ELSE [st2[player_id] EXCEPT
                               !.guess = [killer_id |-> accused_id,
                                          killer_display |-> accused_id,
                                          mission |-> guessed_mission]]
          IN Reply(SetItem(st2, player_id, entry), 200, [ok |-> TRUE])

\* submit_guess creating the player's entry before it validates the fields
submit_guess_creates_before_check(data, st) ==
  LET player_id == PlayerId(data)
      accused_id == AccusedId(data)
      guessed_mission == GuessedMission(data)
      st2 == IF Truthy(player_id) THEN ensure_player_state(st, player_id) ELSE st
  IN IF ~Truthy(player_id)
     THEN Failure(st, 400, "Missing player_id")
     ELSE IF ~Truthy(accused_id)
     THEN Failure(st2, 400, "Missing accused_killer_id")
     ELSE IF ~Truthy(guessed_mission)
     THEN Failure(st2, 400, "Missing guessed_mission")
     ELSE LET entry == [st2[player_id] EXCEPT
                          !.guess = [killer_id |-> accused_id,
                                     killer_display |-> accused_id,
                                     mission |-> guessed_mission]]
          IN Reply(SetItem(st2, player_id, entry), 200, [ok |-> TRUE])

submit_guess(data, st) ==
  LET player_id == PlayerId(data)
      accused_id == AccusedId(data)
      guessed_mission == GuessedMission(data)
  IN IF ~Truthy(player_id)
     THEN Failure(st, 400, "Missing player_id")
     ELSE IF ~Truthy(accused_id)
     THEN Failure(st, 400, "Missing accused_killer_id")
     ELSE IF ~Truthy(guessed_mission)
     THEN Failure(st, 400, "Missing guessed_mission")
     ELSE LET st2 == ensure_player_state(st, player_id)
              entry == [st2[player_id] EXCEPT
                          !.guess = [killer_id |-> accused_id,
                                     killer_display |-> accused_id,
                                     mission |-> guessed_mission]]
          IN Reply(SetItem(st2, player_id, entry), 200, [ok |-> TRUE])

\* the row of one roster record that has an id
LeaderboardRow(name, st) ==
  LET s == IF name \in DOMAIN st THEN st[name] ELSE EmptyDict
      g == GetOr(s, "guess", Null)
      guess == IF g = Null THEN EmptyDict ELSE g
  IN [display |-> name,
      points |-> GetOr(s, "points", 0),
      mission_done |-> GetOr(s, "mission_done", FALSE),
      discovered_by_target |-> GetOr(s, "discovered_by_target", FALSE),
      found_killer |-> DOMAIN guess # {},
      guess_killer_display |-> Get(guess, "killer_display"),
      guess_mission |-> Get(guess, "mission")]

RECURSIVE LeaderboardRows(_, _)
LeaderboardRows(roster, st) ==
  IF roster = << >> THEN << >>
  ELSE LET name == Get(Head(roster), "id")
       IN (IF ~Truthy(name) THEN << >> ELSE <<LeaderboardRow(name, st)>>)
          \o LeaderboardRows(Tail(roster), st)

RECURSIVE EnsureAll(_, _)
EnsureAll(roster, st) ==
  IF roster = << >> THEN st
  ELSE LET name == Get(Head(roster), "id")
       IN EnsureAll(Tail(roster),
                    IF Truthy(name) THEN ensure_player_state(st, name) ELSE st)

\* leaderboard creating and saving the entries it does not find
leaderboard_persists_defaults(roster, st) ==
  Reply(EnsureAll(roster, st), 200, LeaderboardRows(roster, st))

leaderboard(roster, st) == Reply(st, 200, LeaderboardRows(roster, st))

ADMIN_PASSWORD == <<"V", "e", "i", "g", "a">>

\* admin_reset adding the roster's defaults to the entries already stored
admin_reset_keeps_old_entries(data, roster, st) ==
  LET password == Strip(Or(Get(data, "password"), << >>))
  IN IF password # ADMIN_PASSWORD
     THEN Failure(st, 403, "Bad password")
     ELSE LET fresh == build_default_state(roster)
              new_state == [k \in DOMAIN st \cup DOMAIN fresh |->
                              IF k \in DOMAIN fresh THEN fresh[k] ELSE st[k]]
          IN Reply(new_state, 200,
                   [ok |-> TRUE, reset |-> TRUE,
                    players |-> Cardinality(DOMAIN new_state)])

\* admin_reset saving the rebuilt document before it checks the password
admin_reset_saves_before_check(data, roster, st) ==
  LET password == Strip(Or(Get(data, "password"), << >>))
      new_state == build_default_state(roster)
  IN IF password # ADMIN_PASSWORD
     THEN Failure(new_state, 403, "Bad password")
     ELSE Reply(new_state, 200,
                [ok |-> TRUE, reset |-> TRUE,
                 players |-> Cardinality(DOMAIN new_state)])

\* admin_reset counting the roster records instead of the rebuilt entries
admin_reset_counts_roster(data, roster, st) ==
  LET password == Strip(Or(Get(data, "password"), << >>))
  IN IF password # ADMIN_PASSWORD
     THEN Failure(st, 403, "Bad password")
     ELSE Reply(build_default_state(roster), 200,
                [ok |-> TRUE, reset |-> TRUE, players |-> Len(roster)])

\* admin_reset comparing the password without regard to case
admin_reset_ignores_case(data, roster, st) ==
  LET password == Strip(Or(Get(data, "password"), << >>))
  IN IF Lower(password) # Lower(ADMIN_PASSWORD)
     THEN Failure(st, 403, "Bad password")
     ELSE LET new_state == build_default_state(roster)
          IN Reply(new_state, 200,
                   [ok |-> TRUE, reset |-> TRUE,
                    players |-> Cardinality(DOMAIN new_state)])

admin_reset(data, roster, st) ==
  LET password == Strip(Or(Get(data, "password"), << >>))
  IN IF password # ADMIN_PASSWORD
     THEN Failure(st, 403, "Bad password")
     ELSE LET new_state == build_default_state(roster)
          IN Reply(new_state, 200,
                   [ok |-> TRUE, reset |-> TRUE,
                    players |-> Cardinality(DOMAIN new_state)])

\* ------------------------------------------------------------------------
\* Bounds and the inputs of the model
\* ------------------------------------------------------------------------

\* largest points value an entry holds when the service starts
MaxPoints == 1

sA == <<"A">>
sa == <<"a">>
sB == <<"B">>
sC == <<"C">>
sX == <<"x">>
sY == <<"y">>

\* players.json documents: empty, plain, with a record that has no id, with
\* an empty id and a repeated id
Rosters ==
  { << >>,
    <<[id |-> sA], [id |-> sB]>>,
    <<[id |-> sB], [name |-> sC], [id |-> sA]>>,
    <<[id |-> sA], [id |-> << >>], [id |-> sA]>> }

\* assignments.json documents
AssignmentTables ==
  { [type |-> "dict", items |-> << >>],
    [type |-> "dict",
     items |-> <<[k |-> sA, v |-> [target |-> sB, mission |-> sX]]>>],
    [type |-> "dict",
     items |-> <<[k |-> sa, v |-> [mission |-> sY]],
                 [k |-> sA, v |-> [target |-> sB, mission |-> sX]]>>],
    [type |-> "dict",
     items |-> <<[k |-> << >>, v |-> [target |-> sA]], [k |-> sB, v |-> Null]>>],
    [type |-> "list",
     items |-> <<[killer |-> <<"E_ACUTE">>, target |-> sA, mission |-> sX],
                 [killer |-> sA, target |-> sB]>>],
    [type |-> "list",
     items |-> <<[target |-> sB, mission |-> sY], [killer |-> sa, mission |-> sX]>>],
    [type |-> "list", items |-> <<[killer |-> << >>, target |-> sB]>>],
    [type |-> "number"] }

\* state.json documents the service may find when it starts: none, or entries
\* another process has written points into
InitialStates ==
  {EmptyDict} \cup
  { [k \in {sA, sC} |->
       [mission_done |-> (k = sC),
        guess |-> IF k = sC
                  THEN [killer_id |-> sA, killer_display |-> sA, mission |-> sY]
                  ELSE Null,
        points |-> p,
        discovered_by_target |-> (k = sA)]] : p \in 1..MaxPoints }

\* query strings of GET /api/mission
MissionArgs ==
  {EmptyDict} \cup
  {[player |-> s] : s \in {sa, <<" ", "A", " ">>, <<"b">>, <<" ">>, <<"e">>}}

\* JSON bodies of POST /api/mission_done
MissionDoneBodies ==
  {EmptyDict, [player_display |-> sB], [player_id |-> << >>, player_display |-> sA]}
  \cup {[player_id |-> s] : s \in {<<" ">>, sA, <<"a", " ">>}}

\* JSON bodies of POST /api/guess
GuessBodies ==
  { [player_id |-> sA, accused_killer_id |-> sA, guessed_mission |-> sX],
    [player_display |-> <<" ", "A">>, accused_killer_display |-> <<"B", " ">>,
     guessed_mission |-> <<" ", "y">>],
    EmptyDict,
    [player_id |-> <<" ">>, accused_killer_id |-> sA, guessed_mission |-> sX],
    [player_id |-> sA, guessed_mission |-> sX],
    [player_id |-> sA, accused_killer_id |-> sB, guessed_mission |-> <<" ">>] }

\* JSON bodies of POST /api/admin/reset
ResetBodies ==
  {EmptyDict} \cup
  {[password |-> s] :
     s \in {ADMIN_PASSWORD, <<" ">> \o ADMIN_PASSWORD \o <<" ">>,
            <<"v", "e", "i", "g", "a">>}}

\* ------------------------------------------------------------------------
\* The service: one request at a time, each handler run to its end
\* ------------------------------------------------------------------------

Request(op, args, r) == [op |-> op, args |-> args, status |-> r.status, body |-> r.body]

Init ==
  /\ players \in Rosters
  /\ assignments \in AssignmentTables
  /\ state \in InitialStates
  /\ before = state
  /\ last = [op |-> "start", args |-> EmptyDict, status |-> 0, body |-> EmptyDict]
  /\ marked = {}
  /\ guessed = EmptyDict
  /\ inflight = << >>
  /\ clock = 0
  /\ lastSaver = 0
  /\ markedAt = EmptyDict

GetMission ==
  \E args \in MissionArgs :
    LET r == get_mission(args, state, assignments)
    IN /\ state' = r.state
       /\ before' = state
       /\ last' = Request("GetMission", args, r)
       /\ UNCHANGED <<players, assignments, marked, guessed, conc>>

MarkMissionDone ==
  \E data \in MissionDoneBodies :
    LET r == mission_done(data, state)
    IN /\ state' = r.state
       /\ before' = state
       /\ last' = Request("MarkMissionDone", data, r)
       /\ marked' = IF r.status = 200 THEN marked \cup {PlayerId(data)} ELSE marked
       /\ UNCHANGED <<players, assignments, guessed, conc>>

\* the submissions of one player since the last reset: the latest one, after
\* the one before it when there is one
Submissions(g, data) ==
  LET sub == [accused |-> AccusedId(data), mission |-> GuessedMission(data)]
      pid == PlayerId(data)
      old == IF pid \in DOMAIN g THEN <<g[pid][Len(g[pid])]>> ELSE << >>
  IN [k \in DOMAIN g \cup {pid} |-> IF k = pid THEN old \o <<sub>> ELSE g[k]]

SubmitGuess ==
  \E data \in GuessBodies :
    LET r == submit_guess(data, state)
    IN /\ state' = r.state
       /\ before' = state
       /\ last' = Request("SubmitGuess", data, r)
       /\ guessed' = IF r.status = 200 THEN Submissions(guessed, data) ELSE guessed
       /\ UNCHANGED <<players, assignments, marked, conc>>

Leaderboard ==
  LET r == leaderboard(players, state)
  IN /\ state' = r.state
     /\ before' = state
     /\ last' = Request("Leaderboard", EmptyDict, r)
     /\ UNCHANGED <<players, assignments, marked, guessed, conc>>

AdminReset ==
  \E data \in ResetBodies :
    LET r == admin_reset(data, players, state)
    IN /\ state' = r.state
       /\ before' = state
       /\ last' = Request("AdminReset", data, r)
       /\ marked' = IF r.status = 200 THEN {} ELSE marked
       /\ guessed' = IF r.status = 200 THEN EmptyDict ELSE guessed
       /\ UNCHANGED <<players, assignments, conc>>

Next == GetMission \/ MarkMissionDone \/ SubmitGuess \/ Leaderboard \/ AdminReset

Spec == Init /\ [][Next]_vars

\* the service started without a state.json: load_json falls back to {}
InitEmpty == Init /\ state = EmptyDict

SpecEmpty == InitEmpty /\ [][Next]_vars

\* ------------------------------------------------------------------------
\* Overlapping requests: the server runs each request in a thread of its own,
\* and a handler reads state.json at its load_json line and writes it at its
\* save_json line, with other requests' loads and saves in between.  A load
\* and a save are each taken as one step on the whole document.
\* ------------------------------------------------------------------------

\* requests that overlap
MaxRequests == 2

Slots == 1..MaxRequests

ConcRosters == {<<[id |-> sA], [id |-> sB]>>}

ConcTables ==
  { [type |-> "dict",
     items |-> <<[k |-> sA, v |-> [target |-> sB, mission |-> sX]]>>],
    [type |-> "list",
     items |-> <<[killer |-> <<"E_ACUTE">>, target |-> sA, mission |-> sX],
                 [killer |-> sA, target |-> sB]>>] }

ConcRequests ==
  { [op |-> "MarkMissionDone", args |-> [player_id |-> sA]],
    [op |-> "MarkMissionDone", args |-> [player_display |-> sB]],
    [op |-> "MarkMissionDone", args |-> [player_id |-> <<" ">>]],
    [op |-> "SubmitGuess",
     args |-> [player_id |-> sA, accused_killer_id |-> sA, guessed_mission |-> sX]],
    [op |-> "GetMission", args |-> [player |-> sa]],
    [op |-> "AdminReset", args |-> [password |-> ADMIN_PASSWORD]] }

Idle == [pc |-> "idle"]

\* save_json adding the entries it is given to the file's entries
save_json_merges(doc, data) ==
  [k \in DOMAIN doc \cup DOMAIN data |-> IF k \in DOMAIN data THEN data[k] ELSE doc[k]]

\* the content of a file holding doc after save_json(path, data): the file is
\* opened for writing, which empties it, and data is dumped into it
save_json(doc, data) == data

\* the handler of a request run on the document doc it has loaded: the
\* document it holds in memory afterwards and its response
Handle(req, doc) ==
  IF req.op = "MarkMissionDone" THEN mission_done(req.args, doc)
  ELSE IF req.op = "SubmitGuess" THEN submit_guess(req.args, doc)
  ELSE IF req.op = "GetMission" THEN get_mission(req.args, doc, assignments)
  ELSE admin_reset(req.args, players, doc)

ConcInit ==
  /\ players \in ConcRosters
  /\ assignments \in ConcTables
  /\ state \in InitialStates
  /\ before = state
  /\ last = [op |-> "start", args |-> EmptyDict, status |-> 0, body |-> EmptyDict]
  /\ marked = {}
  /\ guessed = EmptyDict
  /\ inflight = [i \in Slots |-> Idle]
  /\ clock = 0
  /\ lastSaver = 0
  /\ markedAt = EmptyDict

\* a request runs up to its save_json line: it validates its input, loads the
\* document and changes it in memory; a request that fails answers at once
Load(i) ==
  /\ inflight[i].pc = "idle"
  /\ \E req \in ConcRequests :
       LET r == Handle(req, state)
       IN inflight' = [inflight EXCEPT ![i] =
            [pc |-> IF r.status = 200 THEN "loaded" ELSE "done",
             op |-> req.op, args |-> req.args,
             snap |-> r.state, status |-> r.status, body |-> r.body,
             loadedAt |-> clock, savedAt |-> 0]]
  /\ UNCHANGED <<players, assignments, state, before, last, marked, guessed,
                 clock, lastSaver, markedAt>>

\* the request writes the document it holds and answers
Save(i) ==
  /\ inflight[i].pc = "loaded"
  /\ state' = save_json(state, inflight[i].snap)
  /\ clock' = clock + 1
  /\ lastSaver' = i
  /\ inflight' = [inflight EXCEPT ![i].pc = "done", ![i].savedAt = clock + 1]
  /\ markedAt' =
       IF inflight[i].op = "AdminReset" THEN EmptyDict
       ELSE IF inflight[i].op = "MarkMissionDone"
       THEN [k \in DOMAIN markedAt \cup {PlayerId(inflight[i].args)} |->
               IF k = PlayerId(inflight[i].args) THEN clock + 1 ELSE markedAt[k]]
       ELSE markedAt
  /\ UNCHANGED <<players, assignments, before, last, marked, guessed>>

ConcNext == \E i \in Slots : Load(i) \/ Save(i)

SpecConc == ConcInit /\ [][ConcNext]_vars

\* ------------------------------------------------------------------------
\* Properties
\* ------------------------------------------------------------------------

ResetSucceeded(req) == req.op = "AdminReset" /\ req.status = 200

\* the default PlayerState, as the specification writes it
DefaultEntry ==
  [mission_done |-> FALSE, guess |-> Null, points |-> 0,
   discovered_by_target |-> FALSE]

\* the ids of the roster records that have a non-empty id
RosterIdSet(roster) ==
  {roster[i].id : i \in {j \in 1..Len(roster) :
                           /\ "id" \in DOMAIN roster[j]
                           /\ roster[j].id # None
                           /\ roster[j].id # << >>}}

\* C1: in a run of requests, a step that is not a successful AdminReset keeps
\* every entry whose mission_done is true, with mission_done still true.
C1_MissionDoneLatch ==
  [][ ~ResetSucceeded(last') =>
        \A k \in DOMAIN state :
          state[k].mission_done => (k \in DOMAIN state' /\ state'[k].mission_done) ]_vars

\* a guess was stored into an entry whose mission was done, and it still is
C1_Witness ==
  /\ last.op = "SubmitGuess" /\ last.status = 200
  /\ PlayerId(last.args) \in marked
  /\ before[PlayerId(last.args)].mission_done
  /\ state[PlayerId(last.args)].mission_done
  /\ state[PlayerId(last.args)].guess # before[PlayerId(last.args)].guess

\* C2: after a successful AdminReset the keys of the progress document are
\* exactly the non-empty ids of the roster and every entry is the default one.
C2_ResetRebuildsFromRoster ==
  ResetSucceeded(last) =>
    /\ DOMAIN state = RosterIdSet(players)
    /\ \A k \in DOMAIN state : state[k] = DefaultEntry

\* a reset that dropped an entry, added one and set a changed one back
C2_Witness ==
  /\ ResetSucceeded(last)
  /\ DOMAIN before \ DOMAIN state # {}
  /\ DOMAIN state \ DOMAIN before # {}
  /\ \E k \in DOMAIN state \cap DOMAIN before : before[k] # DefaultEntry

\* the 403 answer of AdminReset
Unauthorized(req) ==
  req.status = 403 /\ req.body = [ok |-> FALSE, error |-> "Bad password"]

C4_PointsAndDiscoveredPreserved ==
  \A k \in DOMAIN before :
    \/ /\ k \in DOMAIN state
       /\ state[k].points = before[k].points
       /\ state[k].discovered_by_target = before[k].discovered_by_target
    \/ /\ ResetSucceeded(last)
       /\ k \in DOMAIN state => (state[k].points = 0 /\ ~state[k].discovered_by_target)

\* a guess and a mission flag went into an entry that holds points
C4_Witness ==
  /\ last.op \in {"SubmitGuess", "MarkMissionDone"} /\ last.status = 200
  /\ PlayerId(last.args) \in DOMAIN before
  /\ before[PlayerId(last.args)].points > 0
  /\ before[PlayerId(last.args)].discovered_by_target
  /\ state[PlayerId(last.args)] # before[PlayerId(last.args)]
  /\ state[PlayerId(last.args)].points = before[PlayerId(last.args)].points
  /\ state[PlayerId(last.args)].discovered_by_target

\* the guess record SubmitGuess is to store for a submission
GuessRecord(sub) ==
  [killer_id |-> sub.accused, killer_display |-> sub.accused, mission |-> sub.mission]

\* the rows of a leaderboard answer that show player p
RowsOf(rows, p) == {i \in DOMAIN rows : rows[i].display = p}

\* C5: when a player has submitted a guess A and then a guess B since the last
\* reset, the stored guess is exactly B's record, and a leaderboard shows, in
\* the row of that player (there is one when the player is in the roster),
\* found_killer true with B's accused name and B's mission.
C5_LastGuessWins ==
  \A p \in DOMAIN guessed :
    Len(guessed[p]) = 2 =>
      /\ p \in DOMAIN state
      /\ state[p].guess = GuessRecord(guessed[p][2])
      /\ last.op = "Leaderboard" =>
           /\ p \in RosterIdSet(players) => RowsOf(last.body, p) # {}
           /\ \A i \in RowsOf(last.body, p) :
                /\ last.body[i].found_killer
                /\ last.body[i].guess_killer_display = guessed[p][2].accused
                /\ last.body[i].guess_mission = guessed[p][2].mission

\* a leaderboard row of a player who guessed twice, the second guess naming
\* another killer and another mission than the first
C5_Witness ==
  /\ last.op = "Leaderboard"
  /\ \E p \in DOMAIN guessed :
       /\ Len(guessed[p]) = 2
       /\ guessed[p][1].accused # guessed[p][2].accused
       /\ guessed[p][1].mission # guessed[p][2].mission
       /\ \E i \in RowsOf(last.body, p) :
            last.body[i].guess_mission = guessed[p][2].mission

\* C6: a successful MarkMissionDone answers mission_done true and leaves the
\* player's flag true; on a document where the flag is already true (the
\* document a first call leaves) it changes nothing, so the second of two
\* calls in a row leaves the document of the first; and it changes no other
\* field of an entry that was present.
C6_MarkMissionDoneIdempotent ==
  (last.op = "MarkMissionDone" /\ last.status = 200) =>
    LET p == PlayerId(last.args)
    IN /\ last.body = [ok |-> TRUE, mission_done |-> TRUE]
       /\ p \in DOMAIN state /\ state[p].mission_done
       /\ (p \in DOMAIN before /\ before[p].mission_done) => state = before
       /\ p \in DOMAIN before =>
            /\ state[p].guess = before[p].guess
            /\ state[p].points = before[p].points
            /\ state[p].discovered_by_target = before[p].discovered_by_target

\* the second of two MarkMissionDone calls for a player who holds a guess
C6_Witness ==
  /\ last.op = "MarkMissionDone" /\ last.status = 200
  /\ PlayerId(last.args) \in DOMAIN before
  /\ before[PlayerId(last.args)].mission_done
  /\ before[PlayerId(last.args)].guess # Null
  /\ state = before

\* C7: a successful GetMission answers with a key k that normalizes like the
\* name asked for; it leaves under k the default entry when k had none and
\* the entry k had otherwise, and answers mission_done as stored under k.
C7_GetMissionLazyCreate ==
  (last.op = "GetMission" /\ last.status = 200) =>
    LET k == last.body.player.id
    IN /\ normalize(k) = normalize(last.args.player)
       /\ k \in DOMAIN state
       /\ k \notin DOMAIN before => state[k] = DefaultEntry
       /\ k \in DOMAIN before => state[k] = before[k]
       /\ last.body.mission_done = state[k].mission_done

\* a GetMission that created the entry of the key it resolved to
C7_Witness ==
  /\ last.op = "GetMission" /\ last.status = 200
  /\ last.body.player.id \notin DOMAIN before
  /\ state[last.body.player.id] = DefaultEntry
  /\ last.body.mission_done = FALSE

HasId(r) == "id" \in DOMAIN r /\ r.id # None /\ r.id # << >>

\* the non-empty ids of the roster, in roster order
RosterIdSeq(roster) ==
  LET keep == SelectSeq(roster, HasId)
  IN [i \in 1..Len(keep) |-> keep[i].id]

\* the row of a player who has no entry
DefaultRow(name) ==
  [display |-> name, points |-> 0, mission_done |-> FALSE,
   discovered_by_target |-> FALSE, found_killer |-> FALSE,
   guess_killer_display |-> None, guess_mission |-> None]

\* C8: a Leaderboard leaves the progress document as it was, answers one row
\* per roster record with a non-empty id, in roster order, and shows a roster
\* player who has no entry with the default values.
C8_LeaderboardReadOnly ==
  last.op = "Leaderboard" =>
    /\ state = before
    /\ [i \in 1..Len(last.body) |-> last.body[i].display] = RosterIdSeq(players)
    /\ \A i \in 1..Len(last.body) :
         last.body[i].display \notin DOMAIN state =>
           last.body[i] = DefaultRow(last.body[i].display)

\* a leaderboard over a roster with a record that yields no row, with a row
\* for a player who has no entry and a row for one who has
C8_Witness ==
  /\ last.op = "Leaderboard"
  /\ Len(last.body) < Len(players)
  /\ \E i \in 1..Len(last.body) : last.body[i].display \notin DOMAIN state
  /\ \E i \in 1..Len(last.body) : last.body[i].display \in DOMAIN state

\* C9: a Leaderboard shows mission_done true in every row of a player for whom
\* MarkMissionDone has succeeded since the last successful AdminReset, and
\* there is such a row when that player id is a roster id.
C9_MarkedShownDone ==
  last.op = "Leaderboard" =>
    \A p \in marked :
      /\ p \in RosterIdSet(players) => RowsOf(last.body, p) # {}
      /\ \A i \in RowsOf(last.body, p) : last.body[i].mission_done

\* the name "a" resolves to "A", "A" was marked done, and the leaderboard
\* shows it in the row of "A"
C9_Witness ==
  /\ last.op = "Leaderboard"
  /\ get_mission([player |-> sa], state, assignments).status = 200
  /\ get_mission([player |-> sa], state, assignments).body.player.id = sA
  /\ sA \in marked
  /\ \E i \in RowsOf(last.body, sA) : last.body[i].mission_done

\* the killer names an assignment table holds
KillerNames(raw) ==
  IF raw.type = "dict" THEN {raw.items[i].k : i \in 1..Len(raw.items)}
  ELSE IF raw.type = "list"
  THEN {raw.items[i].killer :
          i \in {j \in 1..Len(raw.items) : "killer" \in DOMAIN raw.items[j]}}
  ELSE {}

PlayerNotFound(req) ==
  req.status = 404 /\ req.body = [ok |-> FALSE, error |-> "Player not found in assignments"]

InvalidAssignmentsFormat(req) ==
  req.status = 500 /\ req.body = [ok |-> FALSE, error |-> "Invalid assignments format"]

\* C10: a GetMission for a given player name answers PlayerNotFound exactly
\* when the table is a keyed map or a legacy list and no killer name in it
\* normalizes to the normalized name, answers InvalidAssignmentsFormat exactly
\* when the table is neither, and leaves the progress document as it was in
\* both cases.
C10_GetMissionFailures ==
  (last.op = "GetMission" /\ Truthy(Get(last.args, "player"))) =>
    /\ PlayerNotFound(last) <=>
         /\ assignments.type \in {"dict", "list"}
         /\ \A n \in KillerNames(assignments) :
              normalize(n) # normalize(last.args.player)
    /\ InvalidAssignmentsFormat(last) <=> assignments.type \notin {"dict", "list"}
    /\ (PlayerNotFound(last) \/ InvalidAssignmentsFormat(last)) => state = before

MissingField(req) ==
  /\ req.status = 400
  /\ req.body \in {[ok |-> FALSE, error |-> m] :
                     m \in {"Missing player_id", "Missing accused_killer_id",
                            "Missing guessed_mission"}}

\* the value a request gives for a field under either of its two names, trimmed
Trimmed(data, name, other) ==
  LET v == IF name \in DOMAIN data /\ data[name] # None /\ data[name] # << >>
           THEN data[name]
           ELSE IF other \in DOMAIN data /\ data[other] # None THEN data[other]
           ELSE << >>
  IN Strip(v)

\* C11: a MarkMissionDone whose player id is empty after trimming, and a
\* SubmitGuess with player id, accused id or guessed mission empty after
\* trimming, are answered MissingField (400) and leave the progress document
\* as it was, without an entry for the player of the request.
C11_MissingFieldLeavesState ==
  /\ (last.op = "MarkMissionDone"
        /\ Trimmed(last.args, "player_id", "player_display") = << >>) =>
       (MissingField(last) /\ state = before)
  /\ (last.op = "SubmitGuess"
        /\ \/ Trimmed(last.args, "player_id", "player_display") = << >>
           \/ Trimmed(last.args, "accused_killer_id", "accused_killer_display") = << >>
           \/ Trimmed(last.args, "guessed_mission", "guessed_mission") = << >>) =>
       (MissingField(last) /\ state = before)

\* a SubmitGuess without accused name, for a player who has no entry, was rejected
C11_Witness ==
  /\ last.op = "SubmitGuess"
  /\ MissingField(last)
  /\ Trimmed(last.args, "player_id", "player_display") # << >>
  /\ Trimmed(last.args, "player_id", "player_display") \notin DOMAIN state

\* C12 as stated: a successful AdminReset answers a player count equal to the
\* number of records of the roster.
C12_CountIsRosterSize ==
  ResetSucceeded(last) => last.body.players = Len(players)

\* C12 amended: a successful AdminReset answers the number of distinct
\* non-empty ids of the roster, which is the roster size when every record
\* has a non-empty id and no id repeats.
C12_CountIsDistinctIds ==
  ResetSucceeded(last) =>
    /\ last.body.players = Cardinality(RosterIdSet(players))
    /\ last.body.players = Cardinality(DOMAIN state)
    /\ (/\ \A i \in 1..Len(players) : HasId(players[i])
        /\ \A i, j \in 1..Len(players) : i # j => players[i].id # players[j].id)
         => last.body.players = Len(players)

\* a reset over a roster with a repeated or missing id answered fewer players
\* than the roster has records
C12_Witness ==
  /\ ResetSucceeded(last)
  /\ last.body.players > 0
  /\ last.body.players < Len(players)

Canonical == RosterIdSet(players) \cup KillerNames(assignments)

\* C14 as stated: no request creates an entry of the progress document under a
\* string that is neither a roster id nor a killer name of the table.
C14_NewKeysCanonical ==
  [][ \A k \in DOMAIN state' \ DOMAIN state : k \in Canonical ]_vars

\* C14 amended: GetMission creates entries only under killer names of the
\* table and AdminReset only under roster ids; MarkMissionDone and SubmitGuess
\* create the entry of whatever non-empty trimmed player id they are given,
\* canonical identity or not; Leaderboard creates none.
C14_NewKeysByOperation ==
  [][ \A k \in DOMAIN state' \ DOMAIN state :
        \/ last'.op = "GetMission" /\ k \in KillerNames(assignments)
        \/ last'.op = "AdminReset" /\ k \in RosterIdSet(players)
        \/ /\ last'.op \in {"MarkMissionDone", "SubmitGuess"}
           /\ k = Trimmed(last'.args, "player_id", "player_display")
           /\ k # << >> ]_vars

\* MarkMissionDone created an entry under a name that is no canonical identity
\* but normalizes like one
C14_Witness ==
  /\ last.op = "MarkMissionDone" /\ last.status = 200
  /\ PlayerId(last.args) \notin DOMAIN before
  /\ PlayerId(last.args) \in DOMAIN state
  /\ PlayerId(last.args) \notin Canonical
  /\ \E c \in Canonical : normalize(c) = normalize(PlayerId(last.args))

AllDone == \A i \in Slots : inflight[i].pc = "done"

\* C15: with overlapping requests, once a request has saved, the persisted
\* document is exactly the in-memory document of the request that saved last,
\* whatever the other requests saved before it; in particular after all have
\* finished.
C15_LastWriterWins ==
  lastSaver # 0 =>
    /\ inflight[lastSaver].pc = "done"
    /\ inflight[lastSaver].status = 200
    /\ state = inflight[lastSaver].snap
    /\ \A i \in Slots :
         (inflight[i].pc = "done" /\ inflight[i].savedAt # 0) =>
           inflight[i].savedAt <= inflight[lastSaver].savedAt

\* all requests have finished, a MarkMissionDone was answered success and
\* saved, and the persisted document, saved last by another request, does not
\* hold its flag
C15_Witness ==
  /\ AllDone
  /\ \E i \in Slots :
       /\ inflight[i].op = "MarkMissionDone" /\ inflight[i].status = 200
       /\ inflight[i].savedAt # 0
       /\ lastSaver # i
       /\ inflight[lastSaver].op # "AdminReset"
       /\ state = inflight[lastSaver].snap
       /\ \/ PlayerId(inflight[i].args) \notin DOMAIN state
          \/ ~state[PlayerId(inflight[i].args)].mission_done

\* the first key of a keyed table that normalizes to wanted, as an index (0 if none)
\* and, for a legacy list, the first record with a killer field that does
ResolvedIndex(raw, wanted) ==
  LET hits == IF raw.type = "dict"
              THEN {i \in 1..Len(raw.items) : normalize(raw.items[i].k) = wanted}
              ELSE {i \in 1..Len(raw.items) :
                      /\ "killer" \in DOMAIN raw.items[i]
                      /\ normalize(raw.items[i].killer) = wanted}
  IN IF hits = {} THEN 0 ELSE CHOOSE i \in hits : \A j \in hits : i <= j

\* the answer for the killer name key with the record rec (Null when the key
\* has no record)
Resolved(req, key, rec) ==
  /\ req.status = 200
  /\ req.body.ok = TRUE
  /\ req.body.player = [id |-> key, display |-> key]
  /\ req.body.mission.text =
       (IF rec # Null /\ "mission" \in DOMAIN rec THEN rec.mission ELSE DASH)
  /\ req.body.target.display =
       (IF rec # Null /\ "target" \in DOMAIN rec THEN rec.target ELSE DASH)

\* C16: a GetMission on a keyed table or a legacy list that holds a killer
\* name normalizing to the normalized input is answered with the first such
\* name, in table order, as player id and display, and with the mission and
\* the target of that name's record (the dash when absent); the empty string
\* as key or killer included.
C16_ResolvesFirstMatch ==
  (/\ last.op = "GetMission"
   /\ Truthy(Get(last.args, "player"))
   /\ assignments.type \in {"dict", "list"}
   /\ ResolvedIndex(assignments, normalize(last.args.player)) # 0) =>
    LET item == assignments.items[ResolvedIndex(assignments, normalize(last.args.player))]
    IN IF assignments.type = "dict"
       THEN Resolved(last, item.k, item.v)
       ELSE Resolved(last, item.killer, item)

MissingParameter(req) ==
  req.status = 400 /\ req.body = [ok |-> FALSE, error |-> "Missing player parameter"]

\* one of the structured failures {ok: false, error: message}
StructuredFailure(req) ==
  \/ MissingField(req) \/ MissingParameter(req)
  \/ PlayerNotFound(req) \/ InvalidAssignmentsFormat(req)
  \/ Unauthorized(req)

\* C17: every request ends in its success result (status 200) or in one of
\* the structured failures; none ends in an uncaught exception.
C17_NoUnstructuredFailure ==
  last.op # "start" => (last.status = 200 \/ StructuredFailure(last))

\* the players whose flag the persisted document holds as true
DoneIn(doc) == {k \in DOMAIN doc : doc[k].mission_done}

\* request i loaded the document before the save numbered t and saved after it
StaleSave(i, t) ==
  /\ inflight[i].pc = "done"
  /\ inflight[i].op \in {"GetMission", "MarkMissionDone", "SubmitGuess"}
  /\ inflight[i].loadedAt < t
  /\ inflight[i].savedAt > t

\* C18 as stated: with overlapping requests, once a MarkMissionDone for p has
\* saved and answered success, and no AdminReset has saved since, the
\* persisted mission_done of p is true.
C18_LatchUnderConcurrency ==
  \A p \in DOMAIN markedAt : p \in DoneIn(state)

\* C18 amended: once a MarkMissionDone for p has saved and answered success,
\* and no AdminReset has saved since, the persisted mission_done of p is true
\* unless a GetMission, MarkMissionDone or SubmitGuess that loaded the
\* document before that save has saved after it.
C18_LatchUnlessStaleSave ==
  \A p \in DOMAIN markedAt :
    p \in DoneIn(state) \/ \E i \in Slots : StaleSave(i, markedAt[p])

\* a SubmitGuess for p that loaded after the MarkMissionDone of p had saved
\* has saved too, and the flag of p is still true
C18_Witness ==
  \E p \in DOMAIN markedAt :
    /\ p \in DoneIn(state)
    /\ \E i \in Slots :
         /\ inflight[i].pc = "done" /\ inflight[i].op = "SubmitGuess"
         /\ PlayerId(inflight[i].args) = p
         /\ inflight[i].loadedAt >= markedAt[p]
         /\ inflight[i].savedAt > markedAt[p]
         /\ state[p].guess # Null

\* the player a request is about: the trimmed id of the body, or the name a
\* successful GetMission resolved to
PlayerOf(req) ==
  IF req.op = "GetMission" THEN req.body.player.id ELSE PlayerId(req.args)

\* C19: a MarkMissionDone, SubmitGuess or GetMission about player p leaves
\* every entry under another key as it was, adds no entry under another key
\* and removes no entry; when it fails the document is unchanged.
C19_OtherEntriesUntouched ==
  last.op \in {"MarkMissionDone", "SubmitGuess", "GetMission"} =>
    IF last.status = 200
    THEN /\ DOMAIN before \subseteq DOMAIN state
         /\ DOMAIN state \subseteq DOMAIN before \cup {PlayerOf(last)}
         /\ \A k \in DOMAIN before \ {PlayerOf(last)} : state[k] = before[k]
    ELSE state = before

\* the request created or changed the entry of its player while another
\* player's entry holding progress stayed as it was
C19_Witness ==
  /\ last.op \in {"MarkMissionDone", "SubmitGuess", "GetMission"}
  /\ last.status = 200
  /\ PlayerOf(last) \in DOMAIN state
  /\ (PlayerOf(last) \in DOMAIN before => state[PlayerOf(last)] # before[PlayerOf(last)])
  /\ \E k \in DOMAIN before \ {PlayerOf(last)} :
       before[k] # DefaultEntry /\ state[k] = before[k]

\* a non-empty string without surrounding whitespace
TrimmedNonEmpty(s) == s # << >> /\ Strip(s) = s

\* an entry as the operations write it
WellFormedEntry(e) ==
  /\ e.mission_done \in BOOLEAN
  /\ e.points = 0
  /\ e.discovered_by_target = FALSE
  /\ \/ e.guess = Null
     \/ /\ e.guess.killer_id = e.guess.killer_display
        /\ TrimmedNonEmpty(e.guess.killer_id)
        /\ TrimmedNonEmpty(e.guess.mission)

\* the table is a legacy list holding a record whose killer is the empty string
ListHasEmptyKiller(raw) ==
  /\ raw.type = "list"
  /\ \E i \in 1..Len(raw.items) :
       "killer" \in DOMAIN raw.items[i] /\ raw.items[i].killer = << >>

\* C20 as stated: started from an empty progress document, every entry has a
\* boolean mission_done, points 0, discovered_by_target false, and a guess
\* that is null or names a trimmed non-empty killer (id equal to display)
\* and a trimmed non-empty mission; every key is a non-empty string.
C20_EntriesWellFormed ==
  \A k \in DOMAIN state : WellFormedEntry(state[k]) /\ k # << >>

\* C20 amended: the same, except that the key can be the empty string when
\* the assignment table is a legacy list holding a record whose killer is
\* the empty string.
C20_EntriesWellFormedKeyed ==
  \A k \in DOMAIN state :
    /\ WellFormedEntry(state[k])
    /\ k # << >> \/ ListHasEmptyKiller(assignments)

\* the document holds the entry under the empty key next to an entry with
\* the flag set and a guess stored
C20_Witness ==
  /\ << >> \in DOMAIN state
  /\ \E k \in DOMAIN state :
       k # << >> /\ state[k].mission_done /\ state[k].guess # Null

====
